---------------------------- MODULE Spec2Model ----------------------------
(***************************************************************************)
(* Model of the FinCast forecasting engine (sar15/fincast):                *)
(*   backend/algorithms.py  the forecasting methods and the advance-tax    *)
(*                          scheduler                                      *)
(*   backend/main.py        analyze_file, the indirect-method cash-flow    *)
(*                          bridge                                         *)
(*                                                                         *)
(* Python floats are modelled as exact rationals <<n, d>> (d > 0, lowest   *)
(* terms).  round() is Python's round-half-to-even.                        *)
(***************************************************************************)
EXTENDS Integers, Sequences, FiniteSets, TLC

VARIABLES
    \* one call of compute_advance_tax_schedule
    tx_pc, tx_profits, tx_rate, tx_schedule,
    \* one call of adaptive_holt_winters_forecast (the Forecast Selector)
    fs_pc, fs_data, fs_periods, fs_method, fs_fit, fs_result,
    \* one request to analyze_file: its position, its inputs and its locals
    \* (records is the source's `data`, lib_fit the outcome of the library fit)
    pc, records, ca_overrides, lib_fit,
    baseline_forecast, capex_forecast, debt_forecast,
    custom_tax_rate, custom_capex,
    cogs_pct, opex_pct, payroll_pct, line_item_pcts, kpis,
    running_cash, monthly_ebt, advance_tax_monthly,
    estimated_annual_tax, advance_tax_exempt,
    ar_pct, ap_pct, prev_ar, prev_ap,
    i, three_way_model, area_chart_data,
    \* one call of countback_dso: its position, its arguments, the index of
    \* the month the loop is at, and its locals
    dso_pc, dso_ar, dso_sales, dso_k, remainder, total_dso,
    \* one call of straight_line_forecast: its position, its arguments and
    \* its locals (sl_base is the source's `base`)
    sl_pc, sl_data, sl_periods, sl_growth, sl_base, sl_forecast,
    \* two requests in one process: the module-level tables of algorithms.py
    \* (ADVANCE_TAX_SCHEDULE, INDIAN_FY_MONTHS) as the process holds them, and
    \* each request's position, inputs, locals and rows
    schedule_table, fy_months, requests

tx_vars == <<tx_pc, tx_profits, tx_rate, tx_schedule>>

fs_vars == <<fs_pc, fs_data, fs_periods, fs_method, fs_fit, fs_result>>

\* the inputs of a request
in_vars == <<records, ca_overrides, lib_fit>>

\* what lines 124-213 compute once
prep_vars == <<baseline_forecast, capex_forecast, debt_forecast,
               custom_tax_rate, custom_capex,
               cogs_pct, opex_pct, payroll_pct, line_item_pcts, kpis>>

\* what lines 229-245 compute once
tax_vars == <<advance_tax_monthly, estimated_annual_tax, advance_tax_exempt,
              ar_pct, ap_pct>>

\* what the loops write
loop_vars == <<running_cash, monthly_ebt, prev_ar, prev_ap, i,
               three_way_model, area_chart_data>>

af_vars == <<pc, in_vars, prep_vars, tax_vars, loop_vars>>

\* one call of countback_dso
dso_vars == <<dso_pc, dso_ar, dso_sales, dso_k, remainder, total_dso>>

\* one call of straight_line_forecast
sl_vars == <<sl_pc, sl_data, sl_periods, sl_growth, sl_base, sl_forecast>>

\* two requests and the tables they share
pair_vars == <<schedule_table, fy_months, requests>>

\* the calls made on their own, outside a request
rest_vars == <<dso_vars, sl_vars, pair_vars>>

vars == <<tx_vars, fs_vars, af_vars, rest_vars>>

(***************************************************************************)
(* Rational arithmetic: the float operators + - * / < <= max min round     *)
(***************************************************************************)
Abs(x) == IF x < 0 THEN -x ELSE x

RECURSIVE GCD(_, _)
GCD(a, b) == IF b = 0 THEN a ELSE GCD(b, a % b)

\* the float n/d, d # 0
Q(n, d) ==
    LET s == IF d < 0 THEN -1 ELSE 1
        g == GCD(Abs(n), Abs(d))
    IN  <<(s * n) \div g, (s * d) \div g>>

I(n) == <<n, 1>>

Zero == I(0)

RNeg(a) == <<-a[1], a[2]>>

RAdd(a, b) ==
    LET g == GCD(a[2], b[2])
    IN  Q(a[1] * (b[2] \div g) + b[1] * (a[2] \div g), (a[2] \div g) * b[2])

RSub(a, b) == RAdd(a, RNeg(b))

RMul(a, b) ==
    LET g1 == GCD(Abs(a[1]), b[2])
        g2 == GCD(Abs(b[1]), a[2])
    IN  Q((a[1] \div g1) * (b[1] \div g2), (a[2] \div g2) * (b[2] \div g1))

\* a / b, b # 0 (Python raises ZeroDivisionError otherwise)
RDiv(a, b) == RMul(a, Q(b[2], b[1]))

\* the outcome of a Python division that raised: not a number
ZeroDivisionError == <<0, 0>>

Raised(x) == x[2] = 0

\* Python a / b on floats: raises when b == 0
PyDiv(a, b) == IF b[1] = 0 THEN ZeroDivisionError ELSE RDiv(a, b)

RLe(a, b) == a[1] * b[2] <= b[1] * a[2]

RLt(a, b) == a[1] * b[2] < b[1] * a[2]

\* Python max(a, b) and min(a, b): the first argument unless the second is
\* strictly larger (smaller)
RMax(a, b) == IF RLt(a, b) THEN b ELSE a

RMin(a, b) == IF RLt(b, a) THEN b ELSE a

RAbs(a) == <<Abs(a[1]), a[2]>>

\* sum(list); the exact sum does not depend on the order of the additions,
\* and the list is added up by halves
RECURSIVE RSum(_)
RSum(s) ==
    IF s = <<>> THEN Zero
    ELSE IF Len(s) = 1 THEN s[1]
    ELSE LET h == Len(s) \div 2
         IN  RAdd(RSum(SubSeq(s, 1, h)), RSum(SubSeq(s, h + 1, Len(s))))

\* round(x): nearest integer, ties to the even one; the result is an int
PyRound(x) ==
    LET fl == x[1] \div x[2]
        r  == x[1] % x[2]
    IN  IF 2 * r < x[2] THEN fl
        ELSE IF 2 * r > x[2] THEN fl + 1
        ELSE IF fl % 2 = 0 THEN fl ELSE fl + 1

\* round(x, 2)
PyRound2(x) == Q(PyRound(RMul(x, I(100))), 100)

(***************************************************************************)
(* algorithms.py: the advance-tax scheduler                                *)
(***************************************************************************)
\* mutant: the September installment booked at 35%
ADVANCE_TAX_SCHEDULE_over ==
    (2 :> Q(15, 100)) @@ (5 :> Q(35, 100)) @@ (8 :> Q(30, 100)) @@ (11 :> Q(25, 100))

\* mutant: the June installment booked a month late
ADVANCE_TAX_SCHEDULE_late ==
    (3 :> Q(15, 100)) @@ (5 :> Q(30, 100)) @@ (8 :> Q(30, 100)) @@ (11 :> Q(25, 100))

\* mutant: the June and March percentages swapped
ADVANCE_TAX_SCHEDULE_swapped ==
    (2 :> Q(25, 100)) @@ (5 :> Q(30, 100)) @@ (8 :> Q(30, 100)) @@ (11 :> Q(15, 100))

\* 0-indexed forecast month -> share of the annual liability
ADVANCE_TAX_SCHEDULE ==
    (2 :> Q(15, 100)) @@ (5 :> Q(30, 100)) @@ (8 :> Q(30, 100)) @@ (11 :> Q(25, 100))

\* list[i] with Python's 0-based index: lists are sequences
At(list, idx) == list[idx + 1]

\* [0.0] * 12
Zeros12 == [k \in 1 .. 12 |-> Zero]

\* mutant: the loss guard left out
LossMaking_never(estimated_annual_profit) == FALSE

LossMaking(estimated_annual_profit) == RLe(estimated_annual_profit, Zero)

\* mutant: the year estimated from its first month alone
EstimatedAnnualProfit_first(monthly_net_profits) ==
    RMul(I(12), monthly_net_profits[1])

\* line 88: sum(monthly_net_profits)
EstimatedAnnualProfit(monthly_net_profits) == RSum(monthly_net_profits)

\* lines 72-106, reading the installment table as `table`
AdvanceTaxWith(table, monthly_net_profits, tax_rate) ==
    LET estimated_annual_profit == EstimatedAnnualProfit(monthly_net_profits)
        annual_tax_liability    == RMul(estimated_annual_profit, tax_rate)
    IN  IF LossMaking(estimated_annual_profit)
        THEN Zeros12
        ELSE [k \in 1 .. 12 |->
                IF (k - 1) \in DOMAIN table
                THEN PyRound2(RMul(annual_tax_liability, table[k - 1]))
                ELSE Zero]

compute_advance_tax_schedule(monthly_net_profits, tax_rate) ==
    AdvanceTaxWith(ADVANCE_TAX_SCHEDULE, monthly_net_profits, tax_rate)

(***************************************************************************)
(* algorithms.py: the forecasting methods                                  *)
(***************************************************************************)
RECURSIVE RPow(_, _)
RPow(a, k) == IF k = 0 THEN I(1) ELSE RMul(RPow(a, k - 1), a)

RECURSIVE IPow(_, _)
IPow(a, k) == IF k = 0 THEN 1 ELSE IPow(a, k - 1) * a

\* the integer r with r^m = a (the histories of the model are those whose
\* geometric mean is rational, so that the float power has an exact value)
IRoot(a, m) == CHOOSE r \in 0 .. a : IPow(r, m) = a

\* p ** (1 / m), p > 0
RRoot(p, m) == IF m = 1 THEN p ELSE Q(IRoot(p[1], m), IRoot(p[2], m))

\* [d for d in data if d > 0]
Sanitized(data) == SelectSeq(data, LAMBDA d : RLt(Zero, d))

\* product of sanitized[i] / sanitized[i-1], i = 1 .. len - 1
RECURSIVE RatioProduct(_)
RatioProduct(s) ==
    IF Len(s) < 2 THEN I(1)
    ELSE RMul(RatioProduct(SubSeq(s, 1, Len(s) - 1)), RDiv(s[Len(s)], s[Len(s) - 1]))

calculate_geometric_growth(data) ==
    IF Len(data) < 2 THEN Zero
    ELSE LET sanitized == Sanitized(data)
         IN  IF Len(sanitized) < 2 THEN Zero
             ELSE RSub(RRoot(RatioProduct(sanitized), Len(sanitized) - 1), I(1))

\* mutant: the floor at zero left out
ClampNonNeg_off(v) == v

\* max(0, v)
ClampNonNeg(v) == RMax(Zero, v)

\* mutant: the growth compounded uncapped
ClampGrowth_off(growth) == growth

\* max(-0.15, min(0.15, growth))
ClampGrowth(growth) == RMax(Q(-15, 100), RMin(Q(15, 100), growth))

straight_line_forecast(data, periods) ==
    IF Len(data) < 2
    THEN [k \in 1 .. periods |->
            ClampNonNeg(IF data # <<>> THEN data[Len(data)] ELSE Zero)]
    ELSE LET growth == ClampGrowth(calculate_geometric_growth(data))
             base   == data[Len(data)]
         IN  [k \in 1 .. periods |->
                ClampNonNeg(RMul(base, RPow(RAdd(I(1), growth), k)))]

\* LinearRegression().fit(X, y).predict(future_X): ordinary least squares of
\* y over the time index 0 .. n-1, evaluated at n .. n+periods-1
OLSPredict(data, periods) ==
    LET n     == Len(data)
        xbar  == Q(n - 1, 2)
        ybar  == RDiv(RSum(data), I(n))
        sxy   == RSum([j \in 1 .. n |->
                        RMul(RSub(I(j - 1), xbar), RSub(data[j], ybar))])
        sxx   == RSum([j \in 1 .. n |->
                        RMul(RSub(I(j - 1), xbar), RSub(I(j - 1), xbar))])
        slope == RDiv(sxy, sxx)
        icept == RSub(ybar, RMul(slope, xbar))
    IN  [k \in 1 .. periods |-> RAdd(icept, RMul(slope, I(n + k - 1)))]

simple_linear_regression(data, periods) ==
    IF Len(data) < 3 THEN straight_line_forecast(data, periods)
    ELSE LET predicted == OLSPredict(data, periods)
         IN  [k \in 1 .. periods |-> ClampNonNeg(predicted[k])]

\* The statsmodels fit and forecast are a library call: its outcome is an
\* float('inf'): what the parser's float() makes of a number too long for a
\* float; no arithmetic of the model is applied to it
Inf == <<1, 0>>

Finite(x) == x[2] # 0

\* line 147: LinearRegression().fit raises ValueError on a y that holds
\* NaN or infinity
LRRaises(data) == \E k \in DOMAIN data : ~Finite(data[k])

\* input of the model, <<"raise">> (any exception inside the try block) or
\* <<"ok", forecast>> with forecast any list of `periods` floats.
NoFit == <<"none">>

\* mutant: the quarterly season tried from 8 points on
HWConfig_early(n) ==
    IF n >= 24 THEN [trend |-> "mul", seasonal |-> "mul", seasonal_periods |-> 12]
    ELSE IF n >= 12 THEN [trend |-> "add", seasonal |-> "add", seasonal_periods |-> 6]
    ELSE IF n >= 8 THEN [trend |-> "add", seasonal |-> "add", seasonal_periods |-> 4]
    ELSE [trend |-> "add", seasonal |-> "none", seasonal_periods |-> 0]

\* the ExponentialSmoothing configuration the selection ladder constructs
\* (seasonal=None has no seasonal_periods: 0 here)
HWConfig(n) ==
    IF n >= 24 THEN [trend |-> "mul", seasonal |-> "mul", seasonal_periods |-> 12]
    ELSE IF n >= 12 THEN [trend |-> "add", seasonal |-> "add", seasonal_periods |-> 6]
    ELSE IF n >= 9 THEN [trend |-> "add", seasonal |-> "add", seasonal_periods |-> 4]
    ELSE [trend |-> "add", seasonal |-> "none", seasonal_periods |-> 0]

\* no method attempted yet
NoMethod == [method |-> "none"]

\* the method a call on n points attempts first: the exponential smoothing
\* of HWConfig(n), or below 6 points simple_linear_regression, which below
\* 3 points hands over to straight_line_forecast
FirstMethod(n) ==
    IF n >= 6 THEN [method |-> "exponential_smoothing", config |-> HWConfig(n)]
    ELSE IF n >= 3 THEN [method |-> "linear_regression"]
    ELSE [method |-> "straight_line"]

\* data[-1] if data[-1] > 0 else 1
LastVal(data) == IF RLt(Zero, data[Len(data)]) THEN data[Len(data)] ELSE I(1)

\* mutant: the sanity bound never trips
Absurd_never(result, last_val) == FALSE

\* any(v > last_val * 5 or v < 0 for v in result)
Absurd(result, last_val) ==
    \E k \in DOMAIN result :
        RLt(RMul(last_val, I(5)), result[k]) \/ RLt(result[k], Zero)

\* the return statement adaptive_holt_winters_forecast leaves by
HWReturn(data, fit) ==
    IF Len(data) < 6 THEN "too_few"
    ELSE IF fit[1] # "ok" THEN "except"
    ELSE IF Absurd([k \in DOMAIN fit[2] |-> ClampNonNeg(fit[2][k])], LastVal(data))
         THEN "absurd"
    ELSE "result"

\* mutant: a failed fit answered with zeros
OnException_zeros(data, periods) == [k \in 1 .. periods |-> Zero]

\* lines 215-217: except Exception: return simple_linear_regression(...)
OnException(data, periods) == simple_linear_regression(data, periods)

adaptive_holt_winters_forecast(data, periods, fit) ==
    IF HWReturn(data, fit) = "result"
    THEN [k \in DOMAIN fit[2] |-> ClampNonNeg(fit[2][k])]
    ELSE IF HWReturn(data, fit) = "except"
    THEN OnException(data, periods)
    ELSE simple_linear_regression(data, periods)

multiple_linear_regression_forecast(data, periods, fit) ==
    adaptive_holt_winters_forecast(data, periods, fit)

percent_of_sales(dependent_var_history, revenue_history) ==
    LET total_rev == RSum(revenue_history)
    IN  IF total_rev = Zero THEN Zero
        ELSE RDiv(RSum(dependent_var_history), total_rev)

\* mutant: the ratio taken whatever the month's sales
FractionalRatio_unguarded(rem, month_sales) == PyDiv(rem, month_sales)

\* line 39: ratio = remainder / month_sales if month_sales > 0 else 0
FractionalRatio(rem, month_sales) ==
    IF RLt(Zero, month_sales) THEN PyDiv(rem, month_sales) ELSE Zero

\* line 35: the balance left exceeds the month's sales
Exceeds(rem, month_sales) == RLt(month_sales, rem)

\* list(reversed(list))
Reversed(list) == [k \in 1 .. Len(list) |-> list[Len(list) + 1 - k]]

(***************************************************************************)
(* main.py: analyze_file                                                   *)
(***************************************************************************)
\* mutant: the months of the calendar year
INDIAN_FY_MONTHS_calendar ==
    <<"Jan", "Feb", "Mar", "Apr", "May", "Jun", "Jul", "Aug", "Sep", "Oct", "Nov", "Dec">>

INDIAN_FY_MONTHS ==
    <<"Apr", "May", "Jun", "Jul", "Aug", "Sep", "Oct", "Nov", "Dec", "Jan", "Feb", "Mar">>

\* periods=12, range(12)
Periods == 12

\* An override as it arrives in the assumptions JSON: <<"absent">> (no key,
\* or an empty string), <<"text">> (a string float() rejects) or
\* <<"num", q>> (a string float() reads as q).
NoOverrides ==
    [revenue_growth |-> <<"absent">>, tax_rate |-> <<"absent">>, new_capex |-> <<"absent">>]

\* whether the revenue forecast comes from the manual growth override
ManualGrowth(overrides) == overrides.revenue_growth[1] = "num"

\* lines 163-175
BaselineForecast(revenues, overrides, f) ==
    IF ManualGrowth(overrides)
    THEN LET manual_growth == RDiv(overrides.revenue_growth[2], I(100))
             base          == IF revenues # <<>> THEN revenues[Len(revenues)] ELSE Zero
         IN  [k \in 1 .. Periods |->
                ClampNonNeg(RMul(base, RPow(RAdd(I(1), manual_growth), k)))]
    ELSE multiple_linear_regression_forecast(revenues, Periods, f)

\* mutant: an unreadable tax rate read as 0
CustomTaxRate_zero(overrides) ==
    IF overrides.tax_rate[1] = "num"
    THEN RDiv(overrides.tax_rate[2], I(100))
    ELSE IF overrides.tax_rate[1] = "text" THEN Zero
    ELSE Q(15, 100)

\* lines 177-181
CustomTaxRate(overrides) ==
    IF overrides.tax_rate[1] = "num"
    THEN RDiv(overrides.tax_rate[2], I(100))
    ELSE Q(15, 100)

\* lines 183-187
CustomCapex(overrides) ==
    IF overrides.new_capex[1] = "num" THEN overrides.new_capex[2] ELSE Zero

\* [d.get(field, 0) for d in data]
Column(d, field) == [k \in 1 .. Len(d) |-> d[k][field]]

\* the line-item names seen in the history
LineItemNames(d) == UNION {DOMAIN d[k].line_items : k \in 1 .. Len(d)}

\* lines 195-203
LineItemPcts(d) ==
    LET total_opex_historical == RSum(Column(d, "opex"))
        hist_line_item_sum(name) ==
            RSum([k \in 1 .. Len(d) |->
                    IF name \in DOMAIN d[k].line_items
                    THEN d[k].line_items[name] ELSE Zero])
    IN  IF RLt(Zero, total_opex_historical)
        THEN [name \in LineItemNames(d) |->
                RDiv(hist_line_item_sum(name), total_opex_historical)]
        ELSE <<>>

\* lines 249-259, the same in both loops: the month's projected P&L
ProjectionOf(e, val, k) ==
    LET proj_rev     == val
        proj_cogs    == RMul(proj_rev, e.cogs_pct)
        proj_gp      == RSub(proj_rev, proj_cogs)
        proj_opex    == RMul(proj_rev, e.opex_pct)
        proj_payroll == RMul(proj_rev, e.payroll_pct)
        proj_ebitda  == RSub(RSub(proj_gp, proj_opex), proj_payroll)
        proj_debt    == At(e.debt_forecast, k)
        proj_capex   == RAdd(At(e.capex_forecast, k), RDiv(e.custom_capex, I(12)))
    IN  [proj_rev |-> proj_rev, proj_cogs |-> proj_cogs, proj_opex |-> proj_opex,
         proj_payroll |-> proj_payroll, proj_ebitda |-> proj_ebitda,
         proj_debt |-> proj_debt, proj_capex |-> proj_capex,
         proj_net_profit |-> RSub(RSub(proj_ebitda, proj_debt), proj_capex)]

\* the locals of the request that its projections read
Locals ==
    [baseline_forecast |-> baseline_forecast, capex_forecast |-> capex_forecast,
     debt_forecast |-> debt_forecast, custom_tax_rate |-> custom_tax_rate,
     custom_capex |-> custom_capex, cogs_pct |-> cogs_pct, opex_pct |-> opex_pct,
     payroll_pct |-> payroll_pct, line_item_pcts |-> line_item_pcts,
     running_cash |-> running_cash, monthly_ebt |-> monthly_ebt,
     advance_tax_monthly |-> advance_tax_monthly,
     ar_pct |-> ar_pct, ap_pct |-> ap_pct, prev_ar |-> prev_ar, prev_ap |-> prev_ap]

Projection(val, k) == ProjectionOf(Locals, val, k)

\* mutant: each item projected at twice its share
ProjLineItem_double(proj_opex, pct) == PyRound(RMul(RMul(proj_opex, pct), I(2)))

\* line 298: round(proj_opex * pct)
ProjLineItem(proj_opex, pct) == PyRound(RMul(proj_opex, pct))

\* mutant: the working-capital signs exchanged
CashFromOperations_swapped(operating_profit_bwc, delta_ap, delta_ar) ==
    RSub(RAdd(operating_profit_bwc, delta_ar), delta_ap)

\* line 276
CashFromOperations(operating_profit_bwc, delta_ap, delta_ar) ==
    RSub(RAdd(operating_profit_bwc, delta_ap), delta_ar)

\* mutant: every month flagged
IsTaxQuarter_always(proj_tax) == TRUE

\* line 320: proj_tax > 0
IsTaxQuarter(proj_tax) == RLt(Zero, proj_tax)

\* line 235: estimated_annual_tax < 10000
AdvanceTaxExempt(annual_tax) == RLt(annual_tax, I(10000))

\* mutant: two records are taken as enough
InsufficientData_two(d) == Len(d) < 2

\* line 121: len(data) < 3
InsufficientData(d) == Len(d) < 3

\* lines 157-158: a margin in percent of the last month's revenue
Margin(profit, rm_rev) ==
    IF RLt(Zero, rm_rev) THEN RMul(PyDiv(profit, rm_rev), I(100)) ELSE Zero

\* lines 142-143: days payable from the average monthly cogs
CalcDpo(current_ap, cogs_arr) ==
    LET avg_monthly_cogs ==
            IF cogs_arr # <<>> THEN RDiv(RSum(cogs_arr), I(Len(cogs_arr))) ELSE Zero
    IN  IF RLt(Zero, avg_monthly_cogs)
        THEN RMul(PyDiv(current_ap, RMul(avg_monthly_cogs, I(12))), I(365))
        ELSE Zero

NoKpis == [gross_margin |-> Zero, net_margin |-> Zero, calc_dpo |-> Zero]

\* lines 133-158: the ratios of the most recent month
Kpis(data) ==
    LET rm           == data[Len(data)]
        gross_profit == RSub(rm.revenue, rm.cogs)
        ebitda       == RSub(RSub(gross_profit, rm.opex), rm.payroll)
        net_profit   == RSub(RSub(ebitda, rm.debt_service), rm.capex)
    IN  [gross_margin |-> Margin(gross_profit, rm.revenue),
         net_margin   |-> Margin(net_profit, rm.revenue),
         calc_dpo     |-> CalcDpo(rm.ap_balance, Column(data, "cogs"))]

\* mutant: the bridge started from an empty account
StartingCash_zero(end_cash) == 0

\* line 213: running_cash = round(end_cash)
StartingCash(end_cash) == PyRound(end_cash)

\* mutant: the carried balance never replaced
CarryForward_stale(prev, proj) == prev

\* lines 272-273: prev_ar = proj_ar, prev_ap = proj_ap
CarryForward(prev, proj) == proj

\* line 283
NetCashInvesting(proj_capex) == RNeg(proj_capex)

\* mutant: the debt service booked as an inflow
NetCashFinancing_inflow(proj_debt) == proj_debt

\* line 286
NetCashFinancing(proj_debt) == RNeg(proj_debt)

\* mutant: the month's flow overwrites the balance
NextRunningCash_overwrite(cash, rounded_cf_month) == rounded_cf_month

\* line 291: running_cash += rounded_cf_month
NextRunningCash(cash, rounded_cf_month) == cash + rounded_cf_month

\* lines 261-322: the cash flows of month k and the row emitted for it
\* `e` holds the locals of the request, `labels` the month-label table
RowOf(e, labels, val, k) ==
    LET p                    == ProjectionOf(e, val, k)
        operating_profit_bwc == p.proj_ebitda
        proj_ar              == RMul(p.proj_rev, e.ar_pct)
        proj_ap              == RMul(RAdd(RAdd(p.proj_cogs, p.proj_opex), p.proj_payroll),
                                     e.ap_pct)
        delta_ar             == RSub(proj_ar, e.prev_ar)
        delta_ap             == RSub(proj_ap, e.prev_ap)
        cash_from_operations == CashFromOperations(operating_profit_bwc, delta_ap, delta_ar)
        proj_tax             == At(e.advance_tax_monthly, k)
        net_cash_operating   == RSub(cash_from_operations, proj_tax)
        net_cash_investing   == NetCashInvesting(p.proj_capex)
        net_cash_financing   == NetCashFinancing(p.proj_debt)
        cf_month             == RAdd(RAdd(net_cash_operating, net_cash_investing),
                                     net_cash_financing)
        rounded_cf_month     == PyRound(cf_month)
    IN  [month |-> At(labels, k),
         revenue |-> PyRound(p.proj_rev),
         cogs |-> PyRound(p.proj_cogs),
         opex |-> PyRound(p.proj_opex),
         payroll |-> PyRound(p.proj_payroll),
         capex |-> PyRound(p.proj_capex),
         debt |-> PyRound(p.proj_debt),
         ebitda |-> PyRound(p.proj_ebitda),
         net_profit |-> PyRound(p.proj_net_profit),
         tax_liability |-> PyRound(proj_tax),
         operating_profit_bwc |-> PyRound(operating_profit_bwc),
         delta_ar |-> PyRound(delta_ar),
         delta_ap |-> PyRound(delta_ap),
         cash_from_operations |-> PyRound(cash_from_operations),
         net_cash_operating |-> PyRound(net_cash_operating),
         net_cash_investing |-> PyRound(net_cash_investing),
         net_cash_financing |-> PyRound(net_cash_financing),
         net_cash_flow |-> rounded_cf_month,
         ending_cash |-> NextRunningCash(e.running_cash, rounded_cf_month),
         is_tax_quarter |-> IsTaxQuarter(proj_tax),
         line_items |-> [name \in DOMAIN e.line_item_pcts |->
                            ProjLineItem(p.proj_opex, e.line_item_pcts[name])]]

Row(val, k) == RowOf(Locals, INDIAN_FY_MONTHS, val, k)

\* lines 238 and 241: a base that is not positive is replaced by 1
DenominatorGuard_off(x) == x

DenominatorGuard(x) == IF RLt(Zero, x) THEN x ELSE I(1)

\* the locals of a request that has computed nothing yet
NoLocals ==
    [baseline_forecast |-> <<>>, capex_forecast |-> <<>>, debt_forecast |-> <<>>,
     custom_tax_rate |-> Zero, custom_capex |-> Zero, cogs_pct |-> Zero,
     opex_pct |-> Zero, payroll_pct |-> Zero, line_item_pcts |-> <<>>,
     running_cash |-> 0, monthly_ebt |-> <<>>, advance_tax_monthly |-> <<>>,
     ar_pct |-> Zero, ap_pct |-> Zero, prev_ar |-> Zero, prev_ap |-> Zero]

\* lines 124-227: the locals of a request as they stand after the first loop
RequestLocals(d, o, f) ==
    LET e == [NoLocals EXCEPT
                 !.baseline_forecast = BaselineForecast(Column(d, "revenue"), o, f),
                 !.custom_tax_rate = CustomTaxRate(o),
                 !.custom_capex = CustomCapex(o),
                 !.cogs_pct = percent_of_sales(Column(d, "cogs"), Column(d, "revenue")),
                 !.opex_pct = percent_of_sales(Column(d, "opex"), Column(d, "revenue")),
                 !.payroll_pct = percent_of_sales(Column(d, "payroll"), Column(d, "revenue")),
                 !.line_item_pcts = LineItemPcts(d),
                 !.capex_forecast = straight_line_forecast(Column(d, "capex"), Periods),
                 !.debt_forecast = straight_line_forecast(Column(d, "debt_service"), Periods),
                 !.running_cash = StartingCash(d[Len(d)].cash_balance)]
    IN  [e EXCEPT !.monthly_ebt =
            [k \in 1 .. Len(e.baseline_forecast) |->
                ProjectionOf(e, e.baseline_forecast[k], k - 1).proj_net_profit]]

\* lines 232-245, reading the installment table as `table`
TaxLocals(e, d, table) ==
    LET rm == d[Len(d)]
    IN  [e EXCEPT
            !.advance_tax_monthly = AdvanceTaxWith(table, e.monthly_ebt, e.custom_tax_rate),
            !.ar_pct = PyDiv(rm.ar_balance, DenominatorGuard(rm.revenue)),
            !.ap_pct = PyDiv(rm.ap_balance,
                             DenominatorGuard(RAdd(RAdd(rm.cogs, rm.opex), rm.payroll))),
            !.prev_ar = rm.ar_balance,
            !.prev_ap = rm.ap_balance]

\* lines 272-273 and 291: what a turn of the second loop carries on
StepLocals(e, labels, val, k) ==
    LET p == ProjectionOf(e, val, k)
    IN  [e EXCEPT
            !.prev_ar = CarryForward(e.prev_ar, RMul(val, e.ar_pct)),
            !.prev_ap = CarryForward(e.prev_ap,
                            RMul(RAdd(RAdd(p.proj_cogs, p.proj_opex), p.proj_payroll),
                                 e.ap_pct)),
            !.running_cash = RowOf(e, labels, val, k).ending_cash]

\* lines 248-322: the rows of months k .. n - 1
RECURSIVE BridgeRows(_, _, _, _)
BridgeRows(e, labels, k, n) ==
    IF k >= n THEN <<>>
    ELSE LET val == At(e.baseline_forecast, k)
         IN  <<RowOf(e, labels, val, k)>>
                 \o BridgeRows(StepLocals(e, labels, val, k), labels, k + 1, n)

\* lines 124-322: the three_way_model of a request that runs alone
AloneRows(d, o, f) ==
    LET e == TaxLocals(RequestLocals(d, o, f), d, ADVANCE_TAX_SCHEDULE)
    IN  BridgeRows(e, INDIAN_FY_MONTHS, 0, Len(e.baseline_forecast))

\* mutant: a cone that does not widen
DecayFactor_flat(k) == I(1)

\* line 325: decay_factor = 1 + (0.02 * i)
DecayFactor(k) == RAdd(I(1), RMul(Q(2, 100), I(k)))

\* line 326
ConeLower(val, k) == RMul(val, RSub(I(1), RMul(Q(8, 100), DecayFactor(k))))

\* line 327
ConeUpper(val, k) == RMul(val, RAdd(I(1), RMul(Q(8, 100), DecayFactor(k))))

\* lines 325-333: the confidence cone of month k
AreaPoint(val, k) ==
    LET lower == ConeLower(val, k)
        upper == ConeUpper(val, k)
    IN  [month |-> At(INDIAN_FY_MONTHS, k),
         baseline |-> PyRound(val),
         lower |-> PyRound(RMax(Zero, lower)),
         upper |-> PyRound(upper)]

(***************************************************************************)
(* Before a call: nothing in flight                                        *)
(***************************************************************************)
TaxIdle ==
    /\ tx_pc = "idle"
    /\ tx_profits = <<>>
    /\ tx_rate = Zero
    /\ tx_schedule = <<>>

DsoIdle ==
    /\ dso_pc = "idle"
    /\ dso_ar = Zero
    /\ dso_sales = <<>>
    /\ dso_k = 0
    /\ remainder = Zero
    /\ total_dso = Zero

SlIdle ==
    /\ sl_pc = "idle"
    /\ sl_data = <<>>
    /\ sl_periods = 0
    /\ sl_growth = Zero
    /\ sl_base = Zero
    /\ sl_forecast = <<>>

NoRequest ==
    [pc |-> "idle", records |-> <<>>, ca_overrides |-> NoOverrides,
     locals |-> NoLocals, i |-> 0, three_way_model |-> <<>>]

\* the two requests of the concurrency claim
Requests == {1, 2}

\* algorithms.py lines 60-69 as imported, and no request received
PairIdle ==
    /\ schedule_table = ADVANCE_TAX_SCHEDULE
    /\ fy_months = INDIAN_FY_MONTHS
    /\ requests = [r \in Requests |-> NoRequest]

RestIdle == DsoIdle /\ SlIdle /\ PairIdle

SelIdle ==
    /\ fs_pc = "idle"
    /\ fs_data = <<>>
    /\ fs_periods = 0
    /\ fs_method = NoMethod
    /\ fs_fit = NoFit
    /\ fs_result = <<>>

Idle ==
    /\ pc = "idle"
    /\ records = <<>>
    /\ ca_overrides = NoOverrides
    /\ lib_fit = NoFit
    /\ baseline_forecast = <<>>
    /\ capex_forecast = <<>>
    /\ debt_forecast = <<>>
    /\ custom_tax_rate = Zero
    /\ custom_capex = Zero
    /\ cogs_pct = Zero
    /\ opex_pct = Zero
    /\ payroll_pct = Zero
    /\ line_item_pcts = <<>>
    /\ kpis = NoKpis
    /\ running_cash = 0
    /\ monthly_ebt = <<>>
    /\ advance_tax_monthly = <<>>
    /\ estimated_annual_tax = Zero
    /\ advance_tax_exempt = FALSE
    /\ ar_pct = Zero
    /\ ap_pct = Zero
    /\ prev_ar = Zero
    /\ prev_ap = Zero
    /\ i = 0
    /\ three_way_model = <<>>
    /\ area_chart_data = <<>>

(***************************************************************************)
(* SpecSel: the Forecast Selector called on every history of up to         *)
(* MaxHistory values of SelVals, on the histories of up to MaxShortHistory *)
(* values of ShortVals, on the histories of up to MaxLongHistory values    *)
(* that are flat up to their last value, with every horizon up to          *)
(* MaxPeriods and every outcome of the library fit in FitOutcomes          *)
(***************************************************************************)
MaxHistory == 6

MaxShortHistory == 2

MaxLongHistory == 24

MaxPeriods == 2

SelVals == {Zero, I(1), I(11)}

ShortVals == SelVals \cup {I(-3), I(10)}

HWVals == {I(-1), Zero, I(5), I(6)}

LongHistories ==
    {[k \in 1 .. n |-> IF k = n THEN a ELSE b] :
        n \in MaxHistory + 1 .. MaxLongHistory, a \in SelVals, b \in SelVals}

SelHistories ==
    UNION {[1 .. n -> SelVals] : n \in 0 .. MaxHistory}
    \cup UNION {[1 .. n -> ShortVals] : n \in 0 .. MaxShortHistory}
    \cup LongHistories

FitOutcomes(periods) ==
    {<<"raise">>} \cup
    {<<"ok", [k \in 1 .. periods |-> IF k = j THEN a ELSE b]>> :
        j \in 1 .. periods, a \in HWVals, b \in HWVals}

SelCall ==
    /\ fs_pc = "idle"
    /\ \E d \in SelHistories, p \in 1 .. MaxPeriods :
          /\ fs_data' = d
          /\ fs_periods' = p
    /\ fs_pc' = "called"
    /\ UNCHANGED <<fs_method, fs_fit, fs_result, tx_vars, af_vars, rest_vars>>

\* lines 180-206: the library fits and forecasts, or raises
SelFit ==
    /\ fs_pc = "called"
    /\ Len(fs_data) >= 6
    /\ fs_method' = FirstMethod(Len(fs_data))
    /\ \E f \in FitOutcomes(fs_periods) : fs_fit' = f
    /\ fs_pc' = "fitted"
    /\ UNCHANGED <<fs_data, fs_periods, fs_result, tx_vars, af_vars, rest_vars>>

SelReturn ==
    /\ \/ fs_pc = "called" /\ Len(fs_data) < 6
       \/ fs_pc = "fitted"
    /\ fs_method' = IF fs_pc = "called" THEN FirstMethod(Len(fs_data)) ELSE fs_method
    /\ fs_result' = adaptive_holt_winters_forecast(fs_data, fs_periods, fs_fit)
    /\ fs_pc' = "returned"
    /\ UNCHANGED <<fs_data, fs_periods, fs_fit, tx_vars, af_vars, rest_vars>>

SelInit == TaxIdle /\ SelIdle /\ Idle /\ RestIdle

SelNext == SelCall \/ SelFit \/ SelReturn

SpecSel == SelInit /\ [][SelNext]_vars

\* the last historical observation
fs_last == fs_data[Len(fs_data)]

\* C3 as claimed: on every path the Forecast Selector returns no value
\* greater than 5 times the last historical observation.
C3_NeverAboveFiveTimesLast ==
    (fs_pc = "returned" /\ fs_data # <<>>) =>
        \A k \in DOMAIN fs_result : RLe(fs_result[k], RMul(I(5), fs_last))

\* C3 as amended: a forecast returned from the exponential-smoothing fit
\* itself (6 or more points, the fit did not raise, the sanity check passed)
\* holds no value greater than 5 times the last observation, or than 5 when
\* the last observation is not positive.
C3_FitResultBounded ==
    (fs_pc = "returned" /\ HWReturn(fs_data, fs_fit) = "result") =>
        \A k \in DOMAIN fs_result : RLe(fs_result[k], RMul(I(5), LastVal(fs_data)))

\* a fitted forecast was returned that sits exactly on the bound
C3_Witness ==
    /\ fs_pc = "returned"
    /\ HWReturn(fs_data, fs_fit) = "result"
    /\ RLt(Zero, fs_last)
    /\ \E k \in DOMAIN fs_result : fs_result[k] = RMul(I(5), fs_last)

\* C4: every value the Forecast Selector returns is >= 0, whichever method
\* or fallback produced it, for every history and horizon.
C4_ForecastNonNegative ==
    fs_pc = "returned" =>
        /\ Len(fs_result) = fs_periods
        /\ \A k \in DOMAIN fs_result : RLe(Zero, fs_result[k])

\* a forecast was returned by the regression although its fitted line, or
\* the library's forecast, went below zero
C4_Witness ==
    /\ fs_pc = "returned"
    /\ \/ /\ Len(fs_data) >= 3
          /\ HWReturn(fs_data, fs_fit) # "result"
          /\ \E k \in 1 .. fs_periods : RLt(OLSPredict(fs_data, fs_periods)[k], Zero)
       \/ /\ HWReturn(fs_data, fs_fit) = "result"
          /\ \E k \in 1 .. fs_periods : RLt(fs_fit[2][k], Zero)

fs_n == Len(fs_data)

\* C11: the method the Forecast Selector first attempts is determined only
\* by the history length n: 3-5 linear regression, 6-8 trend-only
\* exponential smoothing with no seasonal component, 9-11 exponential
\* smoothing with seasonal period 4, 12-23 seasonal period 6, >= 24
\* multiplicative trend with multiplicative seasonal period 12; so a
\* 6-point history selects trend-only smoothing.
C11_MethodByLength ==
    fs_method # NoMethod =>
        /\ fs_n \in 3 .. 5 => fs_method.method = "linear_regression"
        /\ fs_n >= 6 => fs_method.method = "exponential_smoothing"
        /\ fs_n \in 6 .. 8 =>
              /\ fs_method.config.trend = "add"
              /\ fs_method.config.seasonal = "none"
        /\ fs_n \in 9 .. 11 =>
              /\ fs_method.config.seasonal # "none"
              /\ fs_method.config.seasonal_periods = 4
        /\ fs_n \in 12 .. 23 =>
              /\ fs_method.config.seasonal # "none"
              /\ fs_method.config.seasonal_periods = 6
        /\ fs_n >= 24 =>
              /\ fs_method.config.trend = "mul"
              /\ fs_method.config.seasonal = "mul"
              /\ fs_method.config.seasonal_periods = 12

\* a fit was attempted on a history of 24 points
C11_Witness ==
    /\ fs_pc = "returned"
    /\ fs_n = 24
    /\ fs_method.method = "exponential_smoothing"

\* C12 as claimed: for every history of length less than 3, the Forecast
\* Selector returns horizon copies of the last historical value, or horizon
\* zeros if the history is empty.
C12_FlatContinuation ==
    (fs_pc = "returned" /\ fs_n < 3) =>
        fs_result = [k \in 1 .. fs_periods |-> IF fs_n = 0 THEN Zero ELSE fs_last]

\* the growth applied to a 2-point history: the ratio of its values when
\* both are positive, capped to +-15%
fs_growth2 ==
    IF RLt(Zero, fs_data[1]) /\ RLt(Zero, fs_data[2])
    THEN RMax(Q(-15, 100), RMin(Q(15, 100), RSub(RDiv(fs_data[2], fs_data[1]), I(1))))
    ELSE Zero

\* C12 as amended: for an empty history the Forecast Selector returns
\* horizon zeros; for a 1-point history horizon copies of max(0, last
\* value); for a 2-point history the k-th value is max(0, last value *
\* (1 + g)^k) with g the growth between the two values when both are
\* positive, capped to +-15%, and 0 otherwise.
C12_ShortHistoryForecast ==
    (fs_pc = "returned" /\ fs_n < 3) =>
        /\ Len(fs_result) = fs_periods
        /\ fs_n = 0 => \A k \in 1 .. fs_periods : fs_result[k] = Zero
        /\ fs_n = 1 => \A k \in 1 .. fs_periods : fs_result[k] = RMax(Zero, fs_last)
        /\ fs_n = 2 => \A k \in 1 .. fs_periods :
              fs_result[k] = RMax(Zero, RMul(fs_last, RPow(RAdd(I(1), fs_growth2), k)))

\* a 2-point growing history was answered with a compounding forecast
C12_Witness ==
    /\ fs_pc = "returned"
    /\ fs_n = 2
    /\ RLt(Zero, fs_growth2)
    /\ RLt(fs_last, fs_result[1])

MaxRecords == 3

NoItems == <<>>

Records ==
    { [revenue |-> Q(3, 2), cogs |-> Zero, opex |-> Zero, payroll |-> Zero,
       debt_service |-> Q(1, 2), capex |-> Q(1, 2),
       ar_balance |-> Zero, ap_balance |-> Zero, cash_balance |-> I(10),
       line_items |-> NoItems],
      [revenue |-> I(100), cogs |-> I(40), opex |-> I(20), payroll |-> I(10),
       debt_service |-> I(5), capex |-> I(2),
       ar_balance |-> I(30), ap_balance |-> I(14), cash_balance |-> I(50),
       line_items |-> [name \in {"Marketing", "Rent"} |->
                          IF name = "Marketing" THEN I(6) ELSE I(14)]],
      [revenue |-> I(120), cogs |-> I(60), opex |-> I(30), payroll |-> I(20),
       debt_service |-> Zero, capex |-> Zero,
       ar_balance |-> I(24), ap_balance |-> I(22), cash_balance |-> I(-8),
       line_items |-> [name \in {"Rent"} |-> I(30)]],
      [revenue |-> Zero, cogs |-> Zero, opex |-> Zero, payroll |-> Zero,
       debt_service |-> Zero, capex |-> Zero,
       ar_balance |-> I(7), ap_balance |-> I(3), cash_balance |-> I(5),
       line_items |-> NoItems] }

\* a record with an amount in paise
PaiseRecords ==
    { [revenue |-> Q(333333, 100), cogs |-> Zero, opex |-> Zero, payroll |-> Zero,
       debt_service |-> Zero, capex |-> Zero,
       ar_balance |-> Zero, ap_balance |-> Zero, cash_balance |-> Zero,
       line_items |-> NoItems] }

\* the column's geometric growth is 0
GrowthFree(column) ==
    Len(Sanitized(column)) < 2 \/ RatioProduct(Sanitized(column)) = I(1)

\* the histories longer than the 3 records analyze_file asks for
LongerHistories ==
    {[k \in 1 .. n |-> IF k = n THEN a ELSE b] :
        n \in 4 .. MaxRecords, a \in Records, b \in Records}

Histories ==
    {d \in UNION {[1 .. n -> Records] : n \in 0 .. 3} \cup LongerHistories :
        GrowthFree(Column(d, "debt_service")) /\ GrowthFree(Column(d, "capex"))}
    \cup UNION {[1 .. n -> PaiseRecords] : n \in 1 .. MaxRecords}

GrowthOverrides == {<<"absent">>, <<"text">>, <<"num", Zero>>, <<"num", I(-100)>>}

TaxRateOverrides == {<<"absent">>, <<"text">>, <<"num", I(25)>>, <<"num", Q(1, 100)>>}

CapexOverrides == {<<"absent">>, <<"text">>, <<"num", I(6)>>, <<"num", I(-1200)>>}

Overrides ==
    [revenue_growth : GrowthOverrides, tax_rate : TaxRateOverrides,
     new_capex : CapexOverrides]

\* the library is called when the selector runs on 6 or more points
RevenueFits(d, overrides) ==
    IF ~ManualGrowth(overrides) /\ Len(d) >= 6 THEN FitOutcomes(Periods) ELSE {NoFit}

\* lines 36-119: the upload is parsed into the monthly records
Request ==
    /\ pc = "idle"
    /\ \E d \in Histories, o \in Overrides :
          /\ records' = d
          /\ ca_overrides' = o
    /\ pc' = "parsed"
    /\ UNCHANGED <<lib_fit, prep_vars, tax_vars, loop_vars, tx_vars, fs_vars, rest_vars>>

\* lines 121-122: HTTP 400
Reject ==
    /\ pc = "parsed"
    /\ InsufficientData(records)
    /\ pc' = "rejected"
    /\ UNCHANGED <<in_vars, prep_vars, tax_vars, loop_vars, tx_vars, fs_vars, rest_vars>>

\* lines 124-213
Prepare ==
    /\ pc = "parsed"
    /\ ~InsufficientData(records)
    /\ \E f \in RevenueFits(records, ca_overrides) :
          /\ lib_fit' = f
          /\ baseline_forecast' =
                BaselineForecast(Column(records, "revenue"), ca_overrides, f)
    /\ custom_tax_rate' = CustomTaxRate(ca_overrides)
    /\ custom_capex' = CustomCapex(ca_overrides)
    /\ cogs_pct' = percent_of_sales(Column(records, "cogs"), Column(records, "revenue"))
    /\ opex_pct' = percent_of_sales(Column(records, "opex"), Column(records, "revenue"))
    /\ payroll_pct' = percent_of_sales(Column(records, "payroll"), Column(records, "revenue"))
    /\ line_item_pcts' = LineItemPcts(records)
    /\ kpis' = Kpis(records)
    /\ capex_forecast' = straight_line_forecast(Column(records, "capex"), Periods)
    /\ debt_forecast' = straight_line_forecast(Column(records, "debt_service"), Periods)
    /\ running_cash' = StartingCash(records[Len(records)].cash_balance)
    /\ monthly_ebt' = <<>>
    /\ i' = 0
    /\ pc' = "phase1"
    /\ UNCHANGED <<records, ca_overrides, tax_vars, prev_ar, prev_ap,
                   three_way_model, area_chart_data, tx_vars, fs_vars, rest_vars>>

\* lines 217-227: one turn of the first loop
Phase1Step ==
    /\ pc = "phase1"
    /\ i < Len(baseline_forecast)
    /\ monthly_ebt' =
          Append(monthly_ebt, Projection(At(baseline_forecast, i), i).proj_net_profit)
    /\ i' = i + 1
    /\ UNCHANGED <<pc, in_vars, prep_vars, tax_vars, running_cash, prev_ar, prev_ap,
                   three_way_model, area_chart_data, tx_vars, fs_vars, rest_vars>>

\* lines 232-245
Phase2 ==
    /\ pc = "phase1"
    /\ i = Len(baseline_forecast)
    /\ LET rm         == records[Len(records)]
           current_ar == rm.ar_balance
           current_ap == rm.ap_balance
           last_rev   == DenominatorGuard(rm.revenue)
           last_costs == DenominatorGuard(RAdd(RAdd(rm.cogs, rm.opex), rm.payroll))
           schedule   == compute_advance_tax_schedule(monthly_ebt, custom_tax_rate)
       IN  IF Raised(PyDiv(current_ar, last_rev)) \/ Raised(PyDiv(current_ap, last_costs))
           THEN \* lines 388-391: the exception becomes an HTTP 500
                /\ pc' = "failed"
                /\ UNCHANGED <<tax_vars, prev_ar, prev_ap, i>>
           ELSE /\ advance_tax_monthly' = schedule
                /\ estimated_annual_tax' = RSum(schedule)
                /\ advance_tax_exempt' = AdvanceTaxExempt(RSum(schedule))
                /\ ar_pct' = PyDiv(current_ar, last_rev)
                /\ ap_pct' = PyDiv(current_ap, last_costs)
                /\ prev_ar' = current_ar
                /\ prev_ap' = current_ap
                /\ i' = 0
                /\ pc' = "phase3"
    /\ UNCHANGED <<in_vars, prep_vars, running_cash, monthly_ebt,
                   three_way_model, area_chart_data, tx_vars, fs_vars, rest_vars>>

\* the AR ratio taken again at every step, from the balance carried in
Phase3Frame_rederive ==
    /\ ar_pct' = RDiv(prev_ar, DenominatorGuard(At(baseline_forecast, i)))
    /\ UNCHANGED <<in_vars, prep_vars, advance_tax_monthly, estimated_annual_tax,
                   advance_tax_exempt, ap_pct, monthly_ebt>>

\* lines 248-333: the inputs, the ratios and forecasts of lines 124-213,
\* the tax vector and the working-capital ratios of lines 232-242 are read
\* by the second loop and never assigned in it
Phase3Frame == UNCHANGED <<in_vars, prep_vars, tax_vars, monthly_ebt>>

\* lines 248-333: one turn of the second loop
Phase3Step ==
    /\ pc = "phase3"
    /\ i < Len(baseline_forecast)
    /\ LET val == At(baseline_forecast, i)
           row == Row(val, i)
       IN  /\ prev_ar' = CarryForward(prev_ar, RMul(val, ar_pct))
           /\ prev_ap' = LET p == Projection(val, i)
                         IN  CarryForward(prev_ap,
                                 RMul(RAdd(RAdd(p.proj_cogs, p.proj_opex), p.proj_payroll),
                                      ap_pct))
           /\ running_cash' = row.ending_cash
           /\ three_way_model' = Append(three_way_model, row)
           /\ area_chart_data' = Append(area_chart_data, AreaPoint(val, i))
    /\ i' = i + 1
    /\ Phase3Frame
    /\ UNCHANGED <<pc, tx_vars, fs_vars, rest_vars>>

\* lines 335-385: the response is returned
Respond ==
    /\ pc = "phase3"
    /\ i = Len(baseline_forecast)
    /\ pc' = "done"
    /\ UNCHANGED <<in_vars, prep_vars, tax_vars, loop_vars, tx_vars, fs_vars, rest_vars>>

Init == TaxIdle /\ SelIdle /\ Idle /\ RestIdle

Next == Request \/ Reject \/ Prepare \/ Phase1Step \/ Phase2 \/ Phase3Step \/ Respond

Spec == Init /\ [][Next]_vars

\* the rows emitted so far
Rows == {three_way_model[k] : k \in DOMAIN three_way_model}

\* C1: in every emitted row the displayed net_cash_flow differs by at most
\* 1 from the sum of the displayed net_cash_operating, net_cash_investing
\* and net_cash_financing.
C1_NetCashFlowIdentity ==
    \A row \in Rows :
        Abs(row.net_cash_flow
            - (row.net_cash_operating + row.net_cash_investing + row.net_cash_financing)) <= 1

\* C2: for every forecast month after the first, the emitted ending_cash
\* equals the previous row's ending_cash plus the row's net_cash_flow,
\* within 1 unit.
C2_EndingCashAccumulates ==
    \A k \in 2 .. Len(three_way_model) :
        Abs(three_way_model[k].ending_cash
            - (three_way_model[k - 1].ending_cash + three_way_model[k].net_cash_flow)) <= 1

\* all 12 rows are emitted and the balance moved in two consecutive months
C2_Witness ==
    /\ pc = "done"
    /\ Len(three_way_model) = 12
    /\ \E k \in 2 .. 12 :
          /\ three_way_model[k].net_cash_flow # 0
          /\ three_way_model[k - 1].net_cash_flow # 0
          /\ three_way_model[k - 1].ending_cash # 0

\* C9: in every emitted row net_cash_investing <= 0, for every history and
\* every value of the additional-capex override.
C9_InvestingNeverInflow ==
    \A row \in Rows : row.net_cash_investing <= 0

\* C10: in every emitted row net_cash_financing <= 0, for every
\* debt-service history.
C10_FinancingNeverInflow ==
    \A row \in Rows : row.net_cash_financing <= 0

\* all 12 rows are emitted and debt service is paid in them
C10_Witness ==
    /\ pc = "done"
    /\ Len(three_way_model) = 12
    /\ \A row \in Rows : row.net_cash_financing < 0

\* C14: when the ingested history has fewer than 3 records the analysis is
\* rejected with an error to the caller and no forecast, tax schedule or
\* model row is produced; the history is not padded or auto-corrected, and
\* nothing else is rejected here.
C14_InsufficientDataRejected ==
    /\ pc = "rejected" => Len(records) < 3
    /\ Len(records) < 3 =>
          /\ pc \in {"idle", "parsed", "rejected"}
          /\ baseline_forecast = <<>>
          /\ monthly_ebt = <<>>
          /\ advance_tax_monthly = <<>>
          /\ three_way_model = <<>>
          /\ area_chart_data = <<>>

\* a history of 2 records was rejected
C14_Witness ==
    /\ pc = "rejected"
    /\ Len(records) = 2

\* the request got past the length check
Accepted == pc \in {"phase1", "phase3", "done"}

\* C15: for each of the three overrides (revenue growth, tax rate,
\* additional capex) a value that does not parse as a number is ignored and
\* the computed default is used (the selector's forecast, rate 0.15, capex
\* 0), and the request is not rejected for it.
C15_InvalidOverrideIgnored ==
    /\ Accepted =>
          /\ ca_overrides.revenue_growth[1] = "text" =>
                baseline_forecast =
                    adaptive_holt_winters_forecast(Column(records, "revenue"), 12, lib_fit)
          /\ ca_overrides.tax_rate[1] = "text" => custom_tax_rate = Q(15, 100)
          /\ ca_overrides.new_capex[1] = "text" => custom_capex = Zero
    /\ pc = "rejected" => Len(records) < 3

\* a request with three unreadable overrides was answered with 12 rows
C15_Witness ==
    /\ pc = "done"
    /\ Len(three_way_model) = 12
    /\ ca_overrides.revenue_growth[1] = "text"
    /\ ca_overrides.tax_rate[1] = "text"
    /\ ca_overrides.new_capex[1] = "text"
    /\ \E k \in 1 .. 12 : three_way_model[k].tax_liability > 0

\* the sum of an integer-valued map over the keys S
RECURSIVE IntSum(_, _)
IntSum(f, S) ==
    IF S = {} THEN 0
    ELSE LET x == CHOOSE y \in S : TRUE IN f[x] + IntSum(f, S \ {x})

\* the sum of a float-valued map over the keys S
RECURSIVE MapSum(_, _)
MapSum(f, S) ==
    IF S = {} THEN Zero
    ELSE LET x == CHOOSE y \in S : TRUE IN RAdd(f[x], MapSum(f, S \ {x}))

\* the forecast opex of row k (1-based)
RowOpex(k) == RMul(At(baseline_forecast, k - 1), opex_pct)

\* C16: for every forecast opex and every set of line-item ratios that sum
\* to 1, the sum of the projected items round(forecast_opex * ratio)
\* differs from forecast opex by at most the number of distinct items.
C16_LineItemsApproximateOpex ==
    \A k \in DOMAIN three_way_model :
        LET items == three_way_model[k].line_items
        IN  MapSum(line_item_pcts, DOMAIN line_item_pcts) = I(1) =>
                /\ DOMAIN items = DOMAIN line_item_pcts
                /\ RLe(RAbs(RSub(I(IntSum(items, DOMAIN items)), RowOpex(k))),
                       I(Cardinality(DOMAIN items)))

\* a row with two items, neither of them a whole share of the forecast opex
C16_Witness ==
    \E k \in DOMAIN three_way_model :
        LET items == three_way_model[k].line_items
        IN  /\ Cardinality(DOMAIN items) = 2
            /\ MapSum(line_item_pcts, DOMAIN line_item_pcts) = I(1)
            /\ \A name \in DOMAIN items :
                  I(items[name]) # RMul(RowOpex(k), line_item_pcts[name])
            /\ RLt(I(2), RowOpex(k))

\* the working-capital balances before row k (1-based) and after it
RowAr(k) ==
    IF k = 0 THEN records[Len(records)].ar_balance
    ELSE RMul(At(baseline_forecast, k - 1), ar_pct)

RowCosts(k) ==
    LET val == At(baseline_forecast, k - 1)
    IN  RAdd(RAdd(RMul(val, cogs_pct), RMul(val, opex_pct)), RMul(val, payroll_pct))

RowAp(k) ==
    IF k = 0 THEN records[Len(records)].ap_balance
    ELSE RMul(RowCosts(k), ap_pct)

RowEbitda(k) ==
    LET val == At(baseline_forecast, k - 1)
    IN  RSub(RSub(RSub(val, RMul(val, cogs_pct)), RMul(val, opex_pct)),
             RMul(val, payroll_pct))

\* a < b, by the sign of a - b
Below(a, b) == RSub(a, b)[1] < 0

\* a <= b, by the sign of a - b
AtMost(a, b) == RSub(a, b)[1] <= 0

RowDeltaAr(k) == RSub(RowAr(k), RowAr(k - 1))

RowDeltaAp(k) == RSub(RowAp(k), RowAp(k - 1))

\* C17: at every step cash_from_operations = operating_profit_before_wc +
\* delta_ap - delta_ar with operating_profit_before_wc equal to the step's
\* EBITDA (the row shows each of them rounded), so for a fixed EBITDA an
\* increase in receivables strictly lowers cash from operations and an
\* increase in payables strictly raises it.
C17_CashFromOperations ==
    \A k \in DOMAIN three_way_model :
        LET row == three_way_model[k]
            e   == RowEbitda(k)
            dar == RowDeltaAr(k)
            dap == RowDeltaAp(k)
        IN  /\ row.ebitda = PyRound(e)
            /\ row.operating_profit_bwc = row.ebitda
            /\ row.delta_ar = PyRound(dar)
            /\ row.delta_ap = PyRound(dap)
            /\ row.cash_from_operations = PyRound(RSub(RAdd(e, dap), dar))
            /\ RLt(Zero, dar) =>
                  Below(CashFromOperations(e, dap, dar), CashFromOperations(e, dap, Zero))
            /\ RLt(Zero, dap) =>
                  Below(CashFromOperations(e, Zero, dar), CashFromOperations(e, dap, dar))

\* a row in which receivables and payables both grew, by different amounts
C17_Witness ==
    \E k \in DOMAIN three_way_model :
        /\ three_way_model[k].delta_ar > 0
        /\ three_way_model[k].delta_ap > 0
        /\ three_way_model[k].cash_from_operations # three_way_model[k].operating_profit_bwc

\* the 0-indexed months whose row carries the tax flag
Flagged == {k \in 0 .. Len(three_way_model) - 1 : three_way_model[k + 1].is_tax_quarter}

\* the projected annual pre-tax profit and the liability on it
AnnualEbt == RSum(monthly_ebt)

AnnualLiability == RMul(AnnualEbt, custom_tax_rate)

\* C18 as claimed: the set of emitted rows whose tax-month flag is true is
\* exactly {Jun, Sep, Dec, Mar} whenever the projected annual pre-tax
\* profit and the tax rate are positive, and is empty when the annual
\* pre-tax profit is <= 0; the flag of row i is true exactly when
\* advance_tax_monthly[i] > 0.
C18_TaxMonthFlags ==
    pc = "done" =>
        /\ (RLt(Zero, AnnualEbt) /\ RLt(Zero, custom_tax_rate)) => Flagged = {2, 5, 8, 11}
        /\ RLe(AnnualEbt, Zero) => Flagged = {}
        /\ \A k \in 0 .. 11 :
              three_way_model[k + 1].is_tax_quarter = RLt(Zero, At(advance_tax_monthly, k))

\* C18 as amended: the flagged rows are exactly {Jun, Sep, Dec, Mar}
\* whenever the annual pre-tax profit is positive and 15% of the annual
\* liability is above 0.005, so that every installment rounds to 0.01 or
\* more; they are among those four in every case and none when the annual
\* pre-tax profit is <= 0; the flag of row i is true exactly when
\* advance_tax_monthly[i] > 0.
C18_TaxMonthFlagsRounded ==
    pc = "done" =>
        /\ (RLt(Zero, AnnualEbt) /\ Below(Q(5, 1000), RMul(AnnualLiability, Q(15, 100))))
              => Flagged = {2, 5, 8, 11}
        /\ Flagged \subseteq {2, 5, 8, 11}
        /\ RLe(AnnualEbt, Zero) => Flagged = {}
        /\ \A k \in 0 .. 11 :
              three_way_model[k + 1].is_tax_quarter = RLt(Zero, At(advance_tax_monthly, k))

\* a profitable year answered with the four flagged months
C18_Witness ==
    /\ pc = "done"
    /\ RLt(Zero, AnnualEbt)
    /\ Flagged = {2, 5, 8, 11}

\* C19: for every projection with positive annual estimate the exemption
\* flag in the tax metadata is true exactly when annual_liability (annual
\* estimate * tax rate) is below 10000 (a liability is below the whole
\* number 10000 exactly when its integer part is).
C19_ExemptBelowThreshold ==
    (pc = "done" /\ RLt(Zero, AnnualEbt)) =>
        advance_tax_exempt = (AnnualLiability[1] \div AnnualLiability[2] < 10000)

\* C20: no model row is built before the pre-tax profit of all 12 forecast
\* months has been computed and the tax schedule derived from their sum;
\* row i then uses the precomputed advance_tax_monthly[i], so the tax
\* outflow of an early month depends on the forecast of later months.
C20_TaxScheduleBeforeRows ==
    /\ pc = "phase1" => (three_way_model = <<>> /\ advance_tax_monthly = <<>>)
    /\ three_way_model # <<>> =>
          /\ Len(monthly_ebt) = 12
          /\ Len(advance_tax_monthly) = 12
          /\ \A k \in 0 .. 11 :
                At(advance_tax_monthly, k) =
                    IF RLt(Zero, AnnualEbt) /\ k \in {2, 5, 8, 11}
                    THEN PyRound2(RMul(AnnualLiability, ADVANCE_TAX_SCHEDULE[k]))
                    ELSE Zero
          /\ \A k \in DOMAIN three_way_model :
                three_way_model[k].tax_liability = PyRound(advance_tax_monthly[k])

\* the June row is the last one built, it carries a tax outflow, and the
\* months still to be built are forecast at other profits than April
C20_Witness ==
    /\ Len(three_way_model) = 3
    /\ three_way_model[3].tax_liability > 0
    /\ \E k \in 4 .. 12 : monthly_ebt[k] # monthly_ebt[1]
    /\ three_way_model[3].tax_liability
          # PyRound(PyRound2(RMul(RMul(RMul(I(12), monthly_ebt[1]), custom_tax_rate),
                                 Q(15, 100))))

RECURSIVE FlowSum(_)
FlowSum(k) == IF k = 0 THEN 0 ELSE FlowSum(k - 1) + three_way_model[k].net_cash_flow

\* C29: for every k in 0..11 the emitted ending_cash[k] equals the rounded
\* cash balance of the last historical record plus the sum of the emitted
\* integer net_cash_flow of rows 0..k, exactly (no tolerance), including
\* the first row.
C29_EndingCashIsRunningSum ==
    \A k \in DOMAIN three_way_model :
        three_way_model[k].ending_cash
            = PyRound(records[Len(records)].cash_balance) + FlowSum(k)

\* the first row is built on an account that was not empty, and moved it
C29_Witness ==
    /\ Len(three_way_model) >= 1
    /\ PyRound(records[Len(records)].cash_balance) # 0
    /\ three_way_model[1].net_cash_flow # 0

\* the unrounded delta_ar and delta_ap of rows 1 .. k added up
RECURSIVE DeltaArSum(_)
DeltaArSum(k) == IF k = 0 THEN Zero ELSE RAdd(DeltaArSum(k - 1), RowDeltaAr(k))

RECURSIVE DeltaApSum(_)
DeltaApSum(k) == IF k = 0 THEN Zero ELSE RAdd(DeltaApSum(k - 1), RowDeltaAp(k))

\* C30: after step i the carried prev_ar equals revenue_forecast[i] *
\* ar_pct and prev_ap equals the step's projected total cost * ap_pct, so
\* the unrounded deltas telescope: for every k the sum of delta_ar over
\* steps 0..k equals projected AR at step k minus the last actual AR
\* balance, and likewise for delta_ap (each row shows its delta rounded;
\* the carried values and the newest row are checked after every step, the
\* sums for every k on the complete bridge).
C30_WorkingCapitalTelescopes ==
    LET k == Len(three_way_model)
        rm == records[Len(records)]
    IN  /\ k >= 1 =>
              /\ prev_ar = RMul(At(baseline_forecast, k - 1), ar_pct)
              /\ prev_ap = RMul(RowCosts(k), ap_pct)
              /\ three_way_model[k].delta_ar = PyRound(RowDeltaAr(k))
              /\ three_way_model[k].delta_ap = PyRound(RowDeltaAp(k))
        /\ pc = "done" =>
              \A j \in DOMAIN three_way_model :
                  /\ DeltaArSum(j) = RSub(RowAr(j), rm.ar_balance)
                  /\ DeltaApSum(j) = RSub(RowAp(j), rm.ap_balance)

\* three steps were taken, receivables and payables changing in each
C30_Witness ==
    /\ Len(three_way_model) >= 3
    /\ RowDeltaAr(1) # Zero
    /\ RowDeltaAr(2) # Zero
    /\ RowDeltaAr(2) # RowDeltaAr(1)
    /\ RowDeltaAr(3) # Zero
    /\ RowDeltaAp(2) # Zero

\* the relative width of the cone of forecast month j (0-based), baseline > 0
BandWidth(j) ==
    LET val == At(baseline_forecast, j)
    IN  RDiv(RSub(ConeUpper(val, j), ConeLower(val, j)), val)

\* the width of the cone of forecast month j as a multiple of its baseline
WidthFactor(j) == RMul(Q(16, 100), DecayFactor(j))

\* C27: for every forecast month i in 0..11 and every non-negative
\* baseline the confidence envelope satisfies 0 <= lower <= baseline <=
\* upper with lower = baseline*(1 - 0.08*(1+0.02*i)) and upper =
\* baseline*(1 + 0.08*(1+0.02*i)) (each shown rounded), and the relative
\* band width (upper - lower)/baseline strictly increases with i (as the
\* quotient where the baseline is positive, and as the multiple of the
\* baseline that upper - lower is, for a zero baseline too); checked on
\* the envelope of every response.
C27_ConfidenceEnvelope ==
    pc = "done" => \A k \in DOMAIN area_chart_data :
        LET j     == k - 1
            val   == At(baseline_forecast, j)
            point == area_chart_data[k]
            lower == RMul(val, RSub(I(1), RMul(Q(8, 100), RAdd(I(1), RMul(Q(2, 100), I(j))))))
            upper == RMul(val, RAdd(I(1), RMul(Q(8, 100), RAdd(I(1), RMul(Q(2, 100), I(j))))))
        IN  /\ RLe(Zero, val)
            /\ RLe(Zero, lower) /\ AtMost(lower, val) /\ AtMost(val, upper)
            /\ point.baseline = PyRound(val)
            /\ point.lower = PyRound(lower)
            /\ point.upper = PyRound(upper)
            /\ 0 <= point.lower
            /\ point.lower <= point.baseline
            /\ point.baseline <= point.upper
            /\ RSub(RSub(ConeUpper(val, j), ConeLower(val, j)),
                    RMul(val, WidthFactor(j)))[1] = 0
            /\ j >= 1 => Below(WidthFactor(j - 1), WidthFactor(j))
            /\ (j >= 1 /\ RLt(Zero, val) /\ RLt(Zero, At(baseline_forecast, j - 1)))
                  => Below(BandWidth(j - 1), BandWidth(j))

\* the cone of the twelfth month is open on both sides of a positive baseline
C27_Witness ==
    /\ pc = "done"
    /\ Len(area_chart_data) = 12
    /\ area_chart_data[12].lower < area_chart_data[12].baseline
    /\ area_chart_data[12].baseline < area_chart_data[12].upper
    /\ area_chart_data[11].baseline > 0

\* the columns of the request hold no negative amount
NonNegativeInputs ==
    \A k \in DOMAIN records :
        \A f \in {"revenue", "cogs", "opex", "payroll"} : RLe(Zero, records[k][f])

\* sum(bucket)/sum(revenue), or 0 when the revenue sum is 0
CostRatio(bucket) ==
    LET total_rev == RSum(Column(records, "revenue"))
    IN  IF total_rev[1] = 0 THEN Zero
        ELSE RDiv(RSum(Column(records, bucket)), total_rev)

\* C23: the cost ratio is sum(bucket)/sum(revenue) when the revenue sum is
\* non-zero and 0 when it is zero, and is >= 0 for non-negative inputs; no
\* degenerate base (zero revenue sum, zero last revenue, zero last cost
\* base) makes the request fail on a division: every ratio is a number, and
\* the working-capital ratios are taken over a denominator of 1 instead.
C23_DegenerateBases ==
    /\ pc # "failed"
    /\ Accepted =>
          /\ cogs_pct = CostRatio("cogs")
          /\ opex_pct = CostRatio("opex")
          /\ payroll_pct = CostRatio("payroll")
          /\ \A r \in {cogs_pct, opex_pct, payroll_pct} :
                ~Raised(r) /\ (NonNegativeInputs => RLe(Zero, r))
          /\ \A f \in DOMAIN kpis : ~Raised(kpis[f])
          /\ records[Len(records)].revenue = Zero =>
                kpis.gross_margin = Zero /\ kpis.net_margin = Zero
    /\ pc \in {"phase3", "done"} =>
          LET rm    == records[Len(records)]
              costs == RAdd(RAdd(rm.cogs, rm.opex), rm.payroll)
          IN  /\ ~Raised(ar_pct) /\ ~Raised(ap_pct)
              /\ ar_pct = IF rm.revenue = Zero THEN RDiv(rm.ar_balance, I(1))
                          ELSE RDiv(rm.ar_balance, rm.revenue)
              /\ ap_pct = IF costs = Zero THEN RDiv(rm.ap_balance, I(1))
                          ELSE RDiv(rm.ap_balance, costs)

\* a response to a history whose revenue sums to zero and whose last month
\* has no revenue and no costs, with balances outstanding
C23_Witness ==
    /\ pc = "done"
    /\ RSum(Column(records, "revenue")) = Zero
    /\ records[Len(records)].revenue = Zero
    /\ records[Len(records)].cogs = Zero
    /\ ar_pct = I(7)
    /\ ap_pct = I(3)
    /\ cogs_pct = Zero

\* C28: across the 12 steps of the bridge only prev_ar, prev_ap and
\* running_cash change (and the step counter and the two output lists
\* grow): ar_pct, ap_pct, the three cost ratios, the line-item ratios and
\* the tax vector were computed before the first step, ar_pct and ap_pct
\* from the final historical month, and are the same at every step.
C28_BridgeFrame ==
    [][pc = "phase3" =>
          /\ UNCHANGED <<ar_pct, ap_pct, cogs_pct, opex_pct, payroll_pct,
                         line_item_pcts, advance_tax_monthly>>
          /\ UNCHANGED <<in_vars, prep_vars, tax_vars, monthly_ebt>>
          /\ LET rm    == records[Len(records)]
                 costs == RAdd(RAdd(rm.cogs, rm.opex), rm.payroll)
             IN  /\ ar_pct = RDiv(rm.ar_balance,
                                  IF RLt(Zero, rm.revenue) THEN rm.revenue ELSE I(1))
                 /\ ap_pct = RDiv(rm.ap_balance,
                                  IF RLt(Zero, costs) THEN costs ELSE I(1))
                 /\ cogs_pct = percent_of_sales(Column(records, "cogs"),
                                                Column(records, "revenue"))
                 /\ advance_tax_monthly =
                       compute_advance_tax_schedule(monthly_ebt, custom_tax_rate)
          /\ i' # i => /\ i' = i + 1
                       /\ Len(three_way_model') = Len(three_way_model) + 1
                       /\ Len(area_chart_data') = Len(area_chart_data) + 1
    ]_vars

\* the bridge has taken steps that moved all three carried values
C28_Witness ==
    /\ pc = "phase3"
    /\ i >= 2
    /\ prev_ar # records[Len(records)].ar_balance
    /\ prev_ap # records[Len(records)].ap_balance
    /\ running_cash # StartingCash(records[Len(records)].cash_balance)
    /\ ar_pct # Zero
    /\ ap_pct # Zero

(***************************************************************************)
(* SpecTax: compute_advance_tax_schedule called on every profit vector of  *)
(* the bounded family below and every rate of TaxRates                     *)
(***************************************************************************)
\* how many months of a profit vector may differ from the other months
TaxDeviations == 1

TaxProfitVals == {I(-50000), I(-1), Zero, Q(123, 100), I(1), I(100000)}

TaxRates == {Q(-1, 10), Zero, Q(15, 100), Q(1, 4)}

TaxProfitVectors ==
    {[k \in 1 .. 12 |-> IF k \in S THEN a ELSE b] :
        S \in {T \in SUBSET (1 .. 12) : Cardinality(T) <= TaxDeviations},
        a \in TaxProfitVals, b \in TaxProfitVals}

TaxCall ==
    /\ tx_pc = "idle"
    /\ \E p \in TaxProfitVectors, r \in TaxRates :
          /\ tx_profits' = p
          /\ tx_rate' = r
    /\ tx_pc' = "called"
    /\ UNCHANGED <<tx_schedule, fs_vars, af_vars, rest_vars>>

TaxReturn ==
    /\ tx_pc = "called"
    /\ tx_schedule' = compute_advance_tax_schedule(tx_profits, tx_rate)
    /\ tx_pc' = "returned"
    /\ UNCHANGED <<tx_profits, tx_rate, fs_vars, af_vars, rest_vars>>

TaxInit == TaxIdle /\ SelIdle /\ Idle /\ RestIdle

TaxNext == TaxCall \/ TaxReturn

SpecTax == TaxInit /\ [][TaxNext]_vars

\* the statutory positions, 0-indexed
TaxPositions == {2, 5, 8, 11}

tx_estimate == RSum(tx_profits)

tx_liability == RMul(tx_estimate, tx_rate)

tx_installments ==
    RSum(<<At(tx_schedule, 2), At(tx_schedule, 5), At(tx_schedule, 8), At(tx_schedule, 11)>>)

\* C5: whenever the 12 pre-tax profits sum to <= 0, the schedule returned
\* is 12 zeros, whatever the tax rate.
C5_LossMakingNoTax ==
    (tx_pc = "returned" /\ RLe(tx_estimate, Zero))
        => tx_schedule = <<Zero, Zero, Zero, Zero, Zero, Zero,
                           Zero, Zero, Zero, Zero, Zero, Zero>>

\* a schedule was returned for a strictly loss-making year at a non-zero rate
C5_Witness ==
    /\ tx_pc = "returned"
    /\ RLt(tx_estimate, Zero)
    /\ tx_rate # Zero

\* C6: every schedule returned has exactly 12 entries, and the 8 entries
\* at positions other than 2, 5, 8 and 11 (0-indexed) are zero.
C6_OnlyStatutoryMonths ==
    tx_pc = "returned" =>
        /\ Len(tx_schedule) = 12
        /\ \A m \in (0 .. 11) \ TaxPositions : At(tx_schedule, m) = Zero

\* a schedule with four non-zero installments was returned
C6_Witness ==
    /\ tx_pc = "returned"
    /\ RLt(Zero, tx_estimate)
    /\ \A m \in TaxPositions : At(tx_schedule, m) # Zero

\* C7: for a positive annual estimate the installments at positions 2, 5,
\* 8, 11 are round(annual_liability * pct, 2) with pct = 0.15, 0.30, 0.30,
\* 0.25 and annual_liability = sum(profits) * tax_rate; a flat 100,000 per
\* month at rate 0.25 gives [0,0,45000,0,0,90000,0,0,90000,0,0,75000].
C7_InstallmentAmounts ==
    (tx_pc = "returned" /\ RLt(Zero, tx_estimate)) =>
        /\ At(tx_schedule, 2)  = PyRound2(RMul(tx_liability, Q(15, 100)))
        /\ At(tx_schedule, 5)  = PyRound2(RMul(tx_liability, Q(30, 100)))
        /\ At(tx_schedule, 8)  = PyRound2(RMul(tx_liability, Q(30, 100)))
        /\ At(tx_schedule, 11) = PyRound2(RMul(tx_liability, Q(25, 100)))
        /\ (tx_profits = [k \in 1 .. 12 |-> I(100000)] /\ tx_rate = Q(1, 4)) =>
              tx_schedule = <<Zero, Zero, I(45000), Zero, Zero, I(90000),
                              Zero, Zero, I(90000), Zero, Zero, I(75000)>>

\* the scenario of the claim: 100,000 per month at 25%
C7_Witness ==
    /\ tx_pc = "returned"
    /\ tx_profits = [k \in 1 .. 12 |-> I(100000)]
    /\ tx_rate = Q(1, 4)

\* C8: for a positive annual estimate the four installments sum to
\* round(annual_liability, 2) within 0.02, the tolerance of four independent
\* 2-decimal roundings (0.005 each); the four percentages sum to 100%.
C8_InstallmentsSumToLiability ==
    (tx_pc = "returned" /\ RLt(Zero, tx_estimate)) =>
        /\ RLe(RAbs(RSub(tx_installments, PyRound2(tx_liability))), Q(2, 100))
        /\ RSum(<<ADVANCE_TAX_SCHEDULE[2], ADVANCE_TAX_SCHEDULE[5],
                  ADVANCE_TAX_SCHEDULE[8], ADVANCE_TAX_SCHEDULE[11]>>) = I(1)

\* the roundings bite: the installments do not sum to the rounded liability
C8_Witness ==
    /\ tx_pc = "returned"
    /\ RLt(Zero, tx_estimate)
    /\ tx_installments # PyRound2(tx_liability)

(***************************************************************************)
(* SpecDso: countback_dso called as line 140 of main.py calls it, on every *)
(* balance of DsoBalances and every revenue column of up to MaxMonths      *)
(* values of DsoSales                                                      *)
(***************************************************************************)
MaxMonths == 3

DsoBalances == {I(-5), Zero, I(5), I(10), Q(25, 2), I(25)}

DsoSales == {I(-2), Zero, I(10), I(20)}

DsoColumns == UNION {[1 .. n -> DsoSales] : n \in 0 .. MaxMonths}

\* main.py line 140 and algorithms.py lines 31-33
DsoCall ==
    /\ dso_pc = "idle"
    /\ \E current_ar \in DsoBalances, revenues \in DsoColumns :
          /\ dso_ar' = current_ar
          /\ dso_sales' = Reversed(revenues)
          /\ remainder' = current_ar
    /\ total_dso' = Zero
    /\ dso_k' = 0
    /\ dso_pc' = "loop"
    /\ UNCHANGED <<tx_vars, fs_vars, af_vars, sl_vars, pair_vars>>

\* lines 35-37: the month is consumed whole
DsoConsume ==
    /\ dso_pc = "loop"
    /\ dso_k < Len(dso_sales)
    /\ Exceeds(remainder, At(dso_sales, dso_k))
    /\ total_dso' = RAdd(total_dso, I(30))
    /\ remainder' = RSub(remainder, At(dso_sales, dso_k))
    /\ dso_k' = dso_k + 1
    /\ UNCHANGED <<dso_pc, dso_ar, dso_sales, tx_vars, fs_vars, af_vars, sl_vars, pair_vars>>

\* lines 38-41: the month is consumed in part, and the loop is left
DsoPartial ==
    /\ dso_pc = "loop"
    /\ dso_k < Len(dso_sales)
    /\ ~Exceeds(remainder, At(dso_sales, dso_k))
    /\ LET ratio == FractionalRatio(remainder, At(dso_sales, dso_k))
       IN  IF Raised(ratio)
           THEN /\ dso_pc' = "raised"
                /\ UNCHANGED total_dso
           ELSE /\ total_dso' = RAdd(total_dso, RMul(ratio, I(30)))
                /\ dso_pc' = "done"
    /\ UNCHANGED <<dso_ar, dso_sales, dso_k, remainder, tx_vars, fs_vars, af_vars, sl_vars, pair_vars>>

\* line 42, reached with the list exhausted
DsoReturn ==
    /\ dso_pc = "loop"
    /\ dso_k = Len(dso_sales)
    /\ dso_pc' = "done"
    /\ UNCHANGED <<dso_ar, dso_sales, dso_k, remainder, total_dso,
                   tx_vars, fs_vars, af_vars, sl_vars, pair_vars>>

DsoInit == TaxIdle /\ SelIdle /\ Idle /\ RestIdle

DsoNext == DsoCall \/ DsoConsume \/ DsoPartial \/ DsoReturn

SpecDso == DsoInit /\ [][DsoNext]_vars

\* the balance left when the loop reaches month j (0-based)
BalanceLeft(j) == RSub(dso_ar, RSum(SubSeq(dso_sales, 1, j)))

\* month j's revenue is fully consumed by the balance left
FullyConsumed(j) == Below(At(dso_sales, j), BalanceLeft(j))

\* what the call has established about the months before dso_k, and that
\* no division raised
CountbackSoFar ==
    /\ dso_pc # "raised"
    /\ dso_pc \in {"loop", "done"} =>
          /\ \A j \in 0 .. dso_k - 1 : FullyConsumed(j)
          /\ remainder = BalanceLeft(dso_k)
    /\ dso_pc = "loop" => total_dso = I(30 * dso_k)
    /\ (dso_pc = "done" /\ dso_k = Len(dso_sales)) => total_dso = I(30 * dso_k)
    /\ (dso_pc = "done" /\ dso_k < Len(dso_sales)) => ~FullyConsumed(dso_k)

\* C25 as amended: 30 days for each month whose revenue is fully consumed
\* by the balance left - a month with zero revenue among them, as long as
\* the balance left is positive - plus, for the first month that is not
\* fully consumed, 30 * (balance left / revenue) if its revenue is positive
\* and 0 days otherwise; then it stops; it never divides by zero.
C25_CountbackDays ==
    /\ CountbackSoFar
    /\ \A j \in 0 .. dso_k - 1 :
          (dso_pc \in {"loop", "done"} /\ At(dso_sales, j) = Zero)
              => RLt(Zero, BalanceLeft(j))
    /\ (dso_pc = "done" /\ dso_k < Len(dso_sales)) =>
          LET month_sales == At(dso_sales, dso_k)
          IN  total_dso =
                 RAdd(I(30 * dso_k),
                      IF RLt(Zero, month_sales)
                      THEN RMul(I(30), RDiv(BalanceLeft(dso_k), month_sales))
                      ELSE Zero)

\* a zero-revenue month counted 30 days before a month consumed by half
C25_Witness ==
    /\ dso_pc = "done"
    /\ dso_k = 1
    /\ Len(dso_sales) = 2
    /\ At(dso_sales, 0) = Zero
    /\ At(dso_sales, 1) = I(10)
    /\ dso_ar = I(5)
    /\ total_dso = I(45)

\* C25 as stated: 30 days for each month whose revenue is fully consumed
\* by the balance left plus 30 * (balance left / revenue) for the first
\* month that is not fully consumed, then stops; it never divides by zero,
\* and a month with zero revenue contributes 0 days.
C25_ZeroMonthContributesNothing ==
    /\ CountbackSoFar
    /\ \A j \in 0 .. dso_k - 1 :
          dso_pc \in {"loop", "done"} => At(dso_sales, j) # Zero
    /\ (dso_pc = "done" /\ dso_k < Len(dso_sales)) =>
          LET month_sales == At(dso_sales, dso_k)
          IN  total_dso =
                 RAdd(I(30 * dso_k),
                      IF month_sales = Zero THEN Zero
                      ELSE RMul(I(30), RDiv(BalanceLeft(dso_k), month_sales)))

(***************************************************************************)
(* SpecLine: straight_line_forecast called on every history of up to       *)
(* MaxLineHistory values of LineVals whose geometric mean is rational, for *)
(* 1 .. MaxLinePeriods periods                                             *)
(***************************************************************************)
MaxLineHistory == 4

MaxLinePeriods == 3

LineVals == {I(-2), Zero, I(1), I(4), I(64), I(100), I(121)}

\* the power of line 24 has an exact value
RationalGrowth(data) ==
    LET s == Sanitized(data)
        m == Len(s) - 1
        p == RatioProduct(s)
    IN  m < 2 \/ /\ \E r \in 0 .. p[1] : IPow(r, m) = p[1]
                 /\ \E r \in 0 .. p[2] : IPow(r, m) = p[2]

LineHistories ==
    {d \in UNION {[1 .. n -> LineVals] : n \in 0 .. MaxLineHistory} : RationalGrowth(d)}

\* line 113
SlCall ==
    /\ sl_pc = "idle"
    /\ \E d \in LineHistories, p \in 1 .. MaxLinePeriods :
          /\ sl_data' = d
          /\ sl_periods' = p
    /\ sl_pc' = "called"
    /\ UNCHANGED <<sl_growth, sl_base, sl_forecast, tx_vars, fs_vars, af_vars, dso_vars, pair_vars>>

\* lines 116-117
SlFlat ==
    /\ sl_pc = "called"
    /\ Len(sl_data) < 2
    /\ sl_forecast' = straight_line_forecast(sl_data, sl_periods)
    /\ sl_pc' = "done"
    /\ UNCHANGED <<sl_data, sl_periods, sl_growth, sl_base,
                   tx_vars, fs_vars, af_vars, dso_vars, pair_vars>>

\* lines 118-121
SlGrowth ==
    /\ sl_pc = "called"
    /\ Len(sl_data) >= 2
    /\ sl_growth' = ClampGrowth(calculate_geometric_growth(sl_data))
    /\ sl_base' = sl_data[Len(sl_data)]
    /\ sl_forecast' = <<>>
    /\ sl_pc' = "loop"
    /\ UNCHANGED <<sl_data, sl_periods, tx_vars, fs_vars, af_vars, dso_vars, pair_vars>>

\* lines 122-124: one turn of the loop
SlStep ==
    /\ sl_pc = "loop"
    /\ Len(sl_forecast) < sl_periods
    /\ sl_base' = RMul(sl_base, RAdd(I(1), sl_growth))
    /\ sl_forecast' = Append(sl_forecast, ClampNonNeg(sl_base'))
    /\ UNCHANGED <<sl_pc, sl_data, sl_periods, sl_growth,
                   tx_vars, fs_vars, af_vars, dso_vars, pair_vars>>

\* line 125
SlReturn ==
    /\ sl_pc = "loop"
    /\ Len(sl_forecast) = sl_periods
    /\ sl_pc' = "done"
    /\ UNCHANGED <<sl_data, sl_periods, sl_growth, sl_base, sl_forecast,
                   tx_vars, fs_vars, af_vars, dso_vars, pair_vars>>

LineInit == TaxIdle /\ SelIdle /\ Idle /\ RestIdle

LineNext == SlCall \/ SlFlat \/ SlGrowth \/ SlStep \/ SlReturn

SpecLine == LineInit /\ [][LineNext]_vars

\* the value the k-th projected value follows: the last historical value
\* for the first, the projected value before it otherwise
SlPredecessor(k) == IF k = 1 THEN sl_data[Len(sl_data)] ELSE sl_forecast[k - 1]

\* C26: for every history of length >= 2 the constant-growth forecast
\* compounds the last historical value by one growth rate clamped to
\* [-15%, +15%]: each projected value is its predecessor (the last
\* historical value for the first) times one factor between 0.85 and 1.15,
\* floored at 0, whatever the volatility of the history.
C26_ClampedCompounding ==
    (sl_pc \in {"loop", "done"} /\ Len(sl_data) >= 2) =>
        /\ AtMost(Q(-15, 100), sl_growth)
        /\ AtMost(sl_growth, Q(15, 100))
        /\ sl_pc = "done" =>
              /\ Len(sl_forecast) = sl_periods
              /\ sl_forecast = straight_line_forecast(sl_data, sl_periods)
        /\ \A k \in DOMAIN sl_forecast :
              LET pred == SlPredecessor(k)
                  val  == sl_forecast[k]
              IN  /\ val = RMax(Zero, RMul(pred, RAdd(I(1), sl_growth)))
                  /\ val = RMax(Zero,
                                RMul(sl_data[Len(sl_data)], RPow(RAdd(I(1), sl_growth), k)))
                  /\ AtMost(Zero, val)
                  /\ AtMost(Zero, pred) =>
                        /\ AtMost(RMul(Q(85, 100), pred), val)
                        /\ AtMost(val, RMul(Q(115, 100), pred))
                  /\ Below(pred, Zero) => val = Zero

\* a history that falls to zero and rises a hundredfold, whose growth of
\* 900% a month is compounded at 15%
C26_Witness ==
    /\ sl_pc = "done"
    /\ sl_data = <<I(4), Zero, I(1), I(100)>>
    /\ sl_periods = 3
    /\ sl_growth = Q(15, 100)
    /\ sl_forecast[1] = I(115)
    /\ sl_forecast[3] = Q(1216700, 8000)

(***************************************************************************)
(* SpecLadder: the Forecast Selector followed rung by rung, on the         *)
(* histories of up to MaxHistory values of SelVals and on the histories of *)
(* MinRegression .. MaxRegression values that hold an infinite one         *)
(***************************************************************************)
\* line 143: simple_linear_regression fits from 3 points on
MinRegression == 3

\* line 171: below 6 points no exponential smoothing is attempted
MaxRegression == 5

NonFiniteHistories ==
    {d \in UNION {[1 .. n -> SelVals \cup {Inf}] : n \in MinRegression .. MaxRegression} :
        LRRaises(d)}

LadderHistories ==
    UNION {[1 .. n -> SelVals] : n \in 0 .. MaxHistory} \cup NonFiniteHistories

\* line 152
LadCall ==
    /\ fs_pc = "idle"
    /\ \E d \in LadderHistories, p \in 1 .. MaxPeriods :
          /\ fs_data' = d
          /\ fs_periods' = p
    /\ fs_pc' = "called"
    /\ UNCHANGED <<fs_method, fs_fit, fs_result, tx_vars, af_vars, rest_vars>>

\* lines 177-204: the seasonal rung; the library fits and forecasts, or raises
LadSeasonal ==
    /\ fs_pc = "called"
    /\ Len(fs_data) >= 6
    /\ fs_method' = FirstMethod(Len(fs_data))
    /\ \E f \in FitOutcomes(fs_periods) : fs_fit' = f
    /\ fs_pc' = "fitted"
    /\ UNCHANGED <<fs_data, fs_periods, fs_result, tx_vars, af_vars, rest_vars>>

\* lines 206-213: the seasonal forecast passes the sanity check
LadAccept ==
    /\ fs_pc = "fitted"
    /\ HWReturn(fs_data, fs_fit) = "result"
    /\ fs_result' = [k \in DOMAIN fs_fit[2] |-> ClampNonNeg(fs_fit[2][k])]
    /\ fs_pc' = "returned"
    /\ UNCHANGED <<fs_data, fs_periods, fs_method, fs_fit, tx_vars, af_vars, rest_vars>>

\* lines 171-173, 209-211 and 215-217: simple_linear_regression is called,
\* for too short a history, an absurd forecast or a failed fit
LadFallBack ==
    /\ \/ fs_pc = "called" /\ Len(fs_data) < 6
       \/ fs_pc = "fitted" /\ HWReturn(fs_data, fs_fit) \in {"absurd", "except"}
    /\ fs_method' = [method |-> "linear_regression"]
    /\ fs_pc' = "linear"
    /\ UNCHANGED <<fs_data, fs_periods, fs_fit, fs_result, tx_vars, af_vars, rest_vars>>

\* lines 143-144: below 3 points the constant-growth forecast is returned
LadStraight ==
    /\ fs_pc = "linear"
    /\ Len(fs_data) < MinRegression
    /\ fs_method' = [method |-> "straight_line"]
    /\ fs_result' = straight_line_forecast(fs_data, fs_periods)
    /\ fs_pc' = "returned"
    /\ UNCHANGED <<fs_data, fs_periods, fs_fit, tx_vars, af_vars, rest_vars>>

\* lines 145-149: the regression is fitted and its prediction returned
LadRegress ==
    /\ fs_pc = "linear"
    /\ Len(fs_data) >= MinRegression
    /\ ~LRRaises(fs_data)
    /\ fs_result' = simple_linear_regression(fs_data, fs_periods)
    /\ fs_pc' = "returned"
    /\ UNCHANGED <<fs_data, fs_periods, fs_method, fs_fit, tx_vars, af_vars, rest_vars>>

\* line 147 raises; no handler encloses the call (the one of line 215
\* calls simple_linear_regression again), so the exception leaves
\* adaptive_holt_winters_forecast
LadRaise ==
    /\ fs_pc = "linear"
    /\ Len(fs_data) >= MinRegression
    /\ LRRaises(fs_data)
    /\ fs_pc' = "raised"
    /\ UNCHANGED <<fs_data, fs_periods, fs_method, fs_fit, fs_result,
                   tx_vars, af_vars, rest_vars>>

LadInit == TaxIdle /\ SelIdle /\ Idle /\ RestIdle

LadNext ==
    LadCall \/ LadSeasonal \/ LadAccept \/ LadFallBack \/ LadStraight
        \/ LadRegress \/ LadRaise

SpecLadder == LadInit /\ [][LadNext]_vars

\* C24: the fallback ladder is seasonal, then on failure or insane result
\* linear regression, then on failure of linear regression flat
\* continuation: for every history the Forecast Selector ends with a
\* forecast of the requested length and never surfaces an error.
C24_LadderNeverSurfacesAnError ==
    /\ fs_pc # "raised"
    /\ fs_pc = "returned" => Len(fs_result) = fs_periods
    /\ (fs_pc = "linear" /\ Len(fs_data) >= 6) =>
          fs_fit # NoFit /\ HWReturn(fs_data, fs_fit) \in {"absurd", "except"}

(***************************************************************************)
(* SpecPair: two requests to analyze_file in one process, their steps      *)
(* interleaved in every order. A request is one of PairHistories (the      *)
(* 3-record histories of the two records with line items) with one of      *)
(* PairOverrides; its locals are its own, the two module-level tables are  *)
(* the process's.                                                          *)
(***************************************************************************)
PairHistories ==
    {d \in Histories :
        /\ Len(d) = 3
        /\ d[1] = d[3]
        /\ d[1] # d[2]
        /\ \A k \in DOMAIN d : d[k].line_items # NoItems}

PairOverrides ==
    {NoOverrides,
     [revenue_growth |-> <<"absent">>, tax_rate |-> <<"num", I(25)>>,
      new_capex |-> <<"num", I(6)>>]}

\* mutant: the June installment taken out of the table by whoever reads it
TablesFrame_consumed ==
    /\ schedule_table' = [k \in DOMAIN schedule_table \ {2} |-> schedule_table[k]]
    /\ UNCHANGED fy_months

\* no statement of main.py or algorithms.py assigns to ADVANCE_TAX_SCHEDULE
\* or INDIAN_FY_MONTHS or changes them in place
TablesFrame == UNCHANGED <<schedule_table, fy_months>>

\* lines 36-227 for request r: parsed, accepted, prepared, first loop run
Accept(r) ==
    /\ requests[r].pc = "idle"
    /\ \E d \in PairHistories, o \in PairOverrides :
          requests' = [requests EXCEPT ![r] =
              [pc |-> "prepared", records |-> d, ca_overrides |-> o,
               locals |-> RequestLocals(d, o, NoFit), i |-> 0,
               three_way_model |-> <<>>]]
    /\ TablesFrame

\* lines 232-245 for request r
Tax(r) ==
    /\ requests[r].pc = "prepared"
    /\ requests' = [requests EXCEPT
          ![r].locals = TaxLocals(requests[r].locals, requests[r].records, schedule_table),
          ![r].pc = "bridge"]
    /\ TablesFrame

\* lines 248-322 for request r: one turn of the second loop
Step(r) ==
    /\ requests[r].pc = "bridge"
    /\ requests[r].i < Len(requests[r].locals.baseline_forecast)
    /\ LET e   == requests[r].locals
           k   == requests[r].i
           val == At(e.baseline_forecast, k)
       IN  requests' = [requests EXCEPT
              ![r].three_way_model = Append(@, RowOf(e, fy_months, val, k)),
              ![r].locals = StepLocals(e, fy_months, val, k),
              ![r].i = k + 1]
    /\ TablesFrame

\* lines 335-385 for request r
Answer(r) ==
    /\ requests[r].pc = "bridge"
    /\ requests[r].i = Len(requests[r].locals.baseline_forecast)
    /\ requests' = [requests EXCEPT ![r].pc = "done"]
    /\ TablesFrame

PairAccept == (\E r \in Requests : Accept(r)) /\ UNCHANGED <<tx_vars, fs_vars, af_vars, dso_vars, sl_vars>>

PairTax == (\E r \in Requests : Tax(r)) /\ UNCHANGED <<tx_vars, fs_vars, af_vars, dso_vars, sl_vars>>

PairStep == (\E r \in Requests : Step(r)) /\ UNCHANGED <<tx_vars, fs_vars, af_vars, dso_vars, sl_vars>>

PairAnswer == (\E r \in Requests : Answer(r)) /\ UNCHANGED <<tx_vars, fs_vars, af_vars, dso_vars, sl_vars>>

PairInit == TaxIdle /\ SelIdle /\ Idle /\ RestIdle

PairNext == PairAccept \/ PairTax \/ PairStep \/ PairAnswer

SpecPair == PairInit /\ [][PairNext]_vars

\* C22: two analysis requests executed concurrently in any interleaving
\* each produce the same rows as when run alone: no engine operation writes
\* process-wide state, and the tax installment table and the month-label
\* table are never mutated.
C22_RequestsAreIsolated ==
    /\ schedule_table = ADVANCE_TAX_SCHEDULE
    /\ fy_months = INDIAN_FY_MONTHS
    /\ \A r \in Requests :
          requests[r].pc = "done" =>
              requests[r].three_way_model =
                  AloneRows(requests[r].records, requests[r].ca_overrides, NoFit)

\* one request answered while the other, on other data and other
\* overrides, is half-way through its bridge
C22_Witness ==
    /\ requests[1].pc = "done"
    /\ Len(requests[1].three_way_model) = 12
    /\ requests[2].pc = "bridge"
    /\ requests[2].i = 6
    /\ requests[1].records # requests[2].records
    /\ requests[1].ca_overrides # requests[2].ca_overrides
    /\ requests[1].three_way_model[3].tax_liability > 0

\* a request to analyze_file run alone answers the rows of AloneRows
AloneRowsAgree ==
    pc = "done" => three_way_model = AloneRows(records, ca_overrides, lib_fit)

=============================================================================
